---- MODULE Spec2Model ----
(***************************************************************************)
(* A model of the robinson rendering pipeline: the cascade                 *)
(* (robinson_style), the style tree, the box tree and block layout         *)
(* (robinson_layout) and the display list (robinson_paint).                *)
(*                                                                         *)
(* Lengths are integers.  Every length the inputs hold is even, so that    *)
(* the one division of the code (underflow / 2.0) is exact, as it is in    *)
(* f32 for the values used here.                                           *)
(***************************************************************************)
EXTENDS Integers, Sequences, FiniteSets, TLC

VARIABLES pc, elem, selector, matched, stylesheets, rules, values,
          doc, viewport, style_tree, layout_root, render_tree, display_list, pass

vars == <<pc, elem, selector, matched, stylesheets, rules, values,
          doc, viewport, style_tree, layout_root, render_tree, display_list, pass>>

(***************************************************************************)
(* Bounds of the model.                                                    *)
(***************************************************************************)
MaxSelectors == 3
MaxNodes == 4
MaxLayoutNodes == 3

(***************************************************************************)
(* Option<T>: None is the empty sequence, Some(x) the one-element one.     *)
(***************************************************************************)
None == <<>>
Some(x) == <<x>>
OptIter(o) == {o[i] : i \in 1..Len(o)}

Unset == "unset"

(***************************************************************************)
(* robinson_css::Value.  One record shape for the three variants.          *)
(***************************************************************************)
Keyword(s) == [t |-> "Keyword", s |-> s, v |-> 0, u |-> "-"]
Length(n, unit) == [t |-> "Length", s |-> "-", v |-> n, u |-> unit]
Color(c) == [t |-> "Color", s |-> "-", v |-> c, u |-> "-"]

to_px(value) == IF value.t = "Length" /\ value.u = "Px" THEN value.v ELSE 0

EmptyMap == [n \in {} |-> None]
insert(map, name, value) == [n \in DOMAIN map \cup {name} |-> IF n = name THEN value ELSE map[n]]

(***************************************************************************)
(* The cascade: robinson_style/src/lib.rs                                  *)
(***************************************************************************)
Element(name, id, classes) == [name |-> name, id |-> id, classes |-> classes]
SimpleSelector(tag_name, id, class) == [tag_name |-> tag_name, id |-> id, class |-> class]

Specificity(sel) == <<Len(sel.id), Cardinality(sel.class), Len(sel.tag_name)>>

SpecLess(a, b) ==
    \/ a[1] < b[1]
    \/ a[1] = b[1] /\ a[2] < b[2]
    \/ a[1] = b[1] /\ a[2] = b[2] /\ a[3] < b[3]

matches_simple_selector_no_id(e, sel) ==
    IF \E name \in OptIter(sel.tag_name) : e.name # name THEN FALSE
    ELSE IF \E class \in sel.class : class \notin e.classes THEN FALSE
    ELSE TRUE

matches_simple_selector(e, sel) ==
    IF \E name \in OptIter(sel.tag_name) : e.name # name THEN FALSE
    ELSE IF \E id \in OptIter(sel.id) : e.id # Some(id) THEN FALSE
    ELSE IF \E class \in sel.class : class \notin e.classes THEN FALSE
    ELSE TRUE

matches(e, sel) == matches_simple_selector(e, sel)

RECURSIVE FindFirst(_, _, _)
FindFirst(e, selectors, i) ==
    IF i > Len(selectors) THEN None
    ELSE IF matches(e, selectors[i]) THEN Some(selectors[i])
    ELSE FindFirst(e, selectors, i + 1)

RECURSIVE FindLast(_, _, _)
FindLast(e, selectors, i) ==
    IF i < 1 THEN None
    ELSE IF matches(e, selectors[i]) THEN Some(selectors[i])
    ELSE FindLast(e, selectors, i - 1)

match_rule_last(e, rule) ==
    LET found == FindLast(e, rule.selectors, Len(rule.selectors))
    IN  IF found = None THEN None ELSE Some(Specificity(found[1]))

match_rule(e, rule) ==
    LET found == FindFirst(e, rule.selectors, 1)
    IN  IF found = None THEN None ELSE Some(Specificity(found[1]))

RECURSIVE matching_rules_from(_, _, _)
matching_rules_from(e, rs, i) ==
    IF i > Len(rs) THEN <<>>
    ELSE LET rule == rs[i]
             rest == matching_rules_from(e, rs, i + 1)
         IN  IF rule.kind # "Normal" THEN rest
             ELSE LET spec == match_rule(e, rule)
                  IN  IF spec = None THEN rest
                      ELSE <<[spec |-> spec[1], rule |-> rule]>> \o rest

matching_rules(e, stylesheet) == matching_rules_from(e, stylesheet.rules, 1)

RECURSIVE collect_rules(_, _, _)
collect_rules(e, sheets, i) ==
    IF i > Len(sheets) THEN <<>>
    ELSE matching_rules(e, sheets[i]) \o collect_rules(e, sheets, i + 1)

\* The comparator handed to sort_by: b.cmp(&a) is Less exactly when a > b.
SortBefore(a, b) == SpecLess(b.spec, a.spec)

RECURSIVE StableInsert(_, _)
StableInsert(sorted, x) ==
    IF sorted = <<>> THEN <<x>>
    ELSE IF SortBefore(x, Head(sorted)) THEN <<x>> \o sorted
    ELSE <<Head(sorted)>> \o StableInsert(Tail(sorted), x)

RECURSIVE StableInsertFront(_, _)
StableInsertFront(sorted, x) ==
    IF sorted = <<>> THEN <<x>>
    ELSE IF ~SortBefore(Head(sorted), x) THEN <<x>> \o sorted
    ELSE <<Head(sorted)>> \o StableInsertFront(Tail(sorted), x)

RECURSIVE sort_by_front_from(_, _)
sort_by_front_from(rs, n) ==
    IF n = 0 THEN <<>>
    ELSE StableInsertFront(sort_by_front_from(rs, n - 1), rs[n])

sort_by_ties_reversed(rs) == sort_by_front_from(rs, Len(rs))

RECURSIVE sort_by_from(_, _)
sort_by_from(rs, n) ==
    IF n = 0 THEN <<>>
    ELSE StableInsert(sort_by_from(rs, n - 1), rs[n])

sort_by(rs) == sort_by_from(rs, Len(rs))

RECURSIVE apply_declarations(_, _, _)
apply_declarations(map, declarations, i) ==
    IF i > Len(declarations) THEN map
    ELSE apply_declarations(insert(map, declarations[i][1], declarations[i][2]),
                            declarations, i + 1)

RECURSIVE apply_rules(_, _, _)
apply_rules(map, rs, i) ==
    IF i > Len(rs) THEN map
    ELSE apply_rules(apply_declarations(map, rs[i].rule.declarations, 1), rs, i + 1)

sorted_rules(e, sheets) == sort_by(collect_rules(e, sheets, 1))

specified_values(e, sheets) == apply_rules(EmptyMap, sorted_rules(e, sheets), 1)

(***************************************************************************)
(* Inputs of the selector-matching specification.                          *)
(***************************************************************************)
TagNames == {"div", "p"}
IdNames == {"foo", "x"}
ClassNames == {"bar", "baz"}

OptionOf(S) == {None} \cup {Some(x) : x \in S}

MatchElements ==
    {Element(n, i, c) : n \in TagNames, i \in OptionOf(IdNames), c \in SUBSET ClassNames}

MatchSelectors ==
    {SimpleSelector(t, i, c) : t \in OptionOf(TagNames), i \in OptionOf(IdNames),
                               c \in SUBSET ClassNames}

InitMatch ==
    /\ pc = "match_input"
    /\ elem \in MatchElements
    /\ selector \in MatchSelectors
    /\ matched = Unset
    /\ stylesheets = Unset /\ rules = Unset /\ values = Unset
    /\ doc = Unset /\ viewport = Unset /\ style_tree = Unset
    /\ layout_root = Unset /\ render_tree = Unset /\ display_list = Unset /\ pass = Unset

MatchSelector ==
    /\ pc = "match_input"
    /\ matched' = matches(elem, selector)
    /\ pc' = "match_done"
    /\ UNCHANGED <<elem, selector, stylesheets, rules, values, doc, viewport,
                   style_tree, layout_root, render_tree, display_list, pass>>

NextMatch == MatchSelector

SpecMatch == InitMatch /\ [][NextMatch]_vars

(***************************************************************************)
(* Inputs of the cascade specification: one element, two stylesheets.      *)
(* Rule k of the flattened rule list declares values that carry k, so the  *)
(* resolved value of a property names the rule it came from.               *)
(***************************************************************************)
Universal == SimpleSelector(None, None, {})
SelDiv == SimpleSelector(Some("div"), None, {})
SelBar == SimpleSelector(None, None, {"bar"})
SelFoo == SimpleSelector(None, Some("foo"), {})

CascadeSelectors == {Universal, SelDiv, SelBar, SelFoo}

CascadeElements ==
    { Element("div", Some("foo"), {"bar"}),
      Element("div", None, {"bar"}),
      Element("p", None, {}) }

DeclShapes == {"c", "cw"}

SelectorLists(n) == [1..n -> CascadeSelectors]

\* Rules before their declarations are numbered: a selector list and a shape.
ProtoRules(n) ==
    {[kind |-> "Normal", selectors |-> sl, shape |-> sh] :
        sl \in SelectorLists(n), sh \in DeclShapes}
    \cup (IF n = 1 THEN {[kind |-> "Other", selectors |-> <<>>, shape |-> "c"]} ELSE {})

RECURSIVE ProtoRuleSeqs(_)
ProtoRuleSeqs(budget) ==
    {<<>>} \cup UNION { {<<r>> \o rest : r \in ProtoRules(n), rest \in ProtoRuleSeqs(budget - n)}
                        : n \in 1..budget }

Declarations(shape, k) ==
    IF shape = "c" THEN << <<"color", Color(k)>> >>
    ELSE << <<"color", Color(k)>>, <<"width", Length(2 * k, "Px")>> >>

NumberRules(protos) ==
    [k \in 1..Len(protos) |->
        [kind |-> protos[k].kind, selectors |-> protos[k].selectors,
         declarations |-> Declarations(protos[k].shape, k)]]

StyleSheet(rs) == [rules |-> rs]

InitCascade ==
    /\ pc = "cascade_input"
    /\ elem \in CascadeElements
    /\ \E protos \in ProtoRuleSeqs(MaxSelectors) : \E k \in 0..Len(protos) :
          LET rs == NumberRules(protos)
          IN  stylesheets = <<StyleSheet(SubSeq(rs, 1, k)), StyleSheet(SubSeq(rs, k + 1, Len(rs)))>>
    /\ selector = Unset /\ matched = Unset /\ rules = Unset /\ values = Unset
    /\ doc = Unset /\ viewport = Unset /\ style_tree = Unset
    /\ layout_root = Unset /\ render_tree = Unset /\ display_list = Unset /\ pass = Unset

\* specified_values(elem, stylesheets); rules is its local list after the sort.
SpecifiedValues ==
    /\ pc = "cascade_input"
    /\ rules' = sorted_rules(elem, stylesheets)
    /\ values' = specified_values(elem, stylesheets)
    /\ pc' = "cascade_done"
    /\ UNCHANGED <<elem, selector, matched, stylesheets, doc, viewport,
                   style_tree, layout_root, render_tree, display_list, pass>>

NextCascade == SpecifiedValues

SpecCascade == InitCascade /\ [][NextCascade]_vars

(***************************************************************************)
(* The style tree: robinson_style/src/lib.rs.  The document is an arena:   *)
(* doc[i] is node i, its parent has a smaller number (0 for the root) and  *)
(* the children of a node are in increasing order of their numbers.        *)
(***************************************************************************)
RECURSIVE Ascending(_, _, _)
Ascending(S, i, n) ==
    IF i > n THEN <<>>
    ELSE IF i \in S THEN <<i>> \o Ascending(S, i + 1, n)
    ELSE Ascending(S, i + 1, n)

DocChildren(d, i) == Ascending({j \in 1..Len(d) : d[j].parent = i}, 1, Len(d))

RECURSIVE StyleNode_new_reversed(_, _, _)
StyleNode_new_reversed(d, i, sheets) ==
    [ node |-> i,
      kind |-> d[i].kind,
      specified_values |->
          IF d[i].kind = "Element" THEN specified_values(d[i].element, sheets) ELSE EmptyMap,
      children |->
          IF d[i].kind = "Element"
          THEN LET ch == DocChildren(d, i)
               IN  [k \in 1..Len(ch) |-> StyleNode_new_reversed(d, ch[Len(ch) + 1 - k], sheets)]
          ELSE <<>> ]

RECURSIVE StyleNode_new(_, _, _)
StyleNode_new(d, i, sheets) ==
    [ node |-> i,
      kind |-> d[i].kind,
      specified_values |->
          IF d[i].kind = "Element" THEN specified_values(d[i].element, sheets) ELSE EmptyMap,
      children |->
          IF d[i].kind = "Element"
          THEN LET ch == DocChildren(d, i)
               IN  [k \in 1..Len(ch) |-> StyleNode_new(d, ch[k], sheets)]
          ELSE <<>> ]

get_value(style, name) ==
    IF name \in DOMAIN style.specified_values THEN Some(style.specified_values[name]) ELSE None

lookup(style, name, fallback_name, default) ==
    IF get_value(style, name) # None THEN get_value(style, name)[1]
    ELSE IF get_value(style, fallback_name) # None THEN get_value(style, fallback_name)[1]
    ELSE default

display(style) ==
    IF style.kind = "Text" THEN "Inline"
    ELSE LET value == get_value(style, "display")
         IN  IF value = None THEN "Inline"
             ELSE IF value[1].t # "Keyword" THEN "Inline"
             ELSE CASE value[1].s = "block" -> "Block"
                    [] value[1].s = "none" -> "None"
                    [] value[1].s = "inline-block" -> "InlineBlock"
                    [] value[1].s = "table" -> "Table"
                    [] value[1].s = "table-row-group" -> "TableRowGroup"
                    [] value[1].s = "table-row" -> "TableRow"
                    [] value[1].s = "table-cell" -> "TableCell"
                    [] value[1].s = "list-item" -> "ListItem"
                    [] OTHER -> "Inline"

(***************************************************************************)
(* The box tree: robinson_layout/src/lib.rs                                *)
(***************************************************************************)
Rect(x, y, width, height) == [x |-> x, y |-> y, width |-> width, height |-> height]
EdgeSizes(left, right, top, bottom) ==
    [left |-> left, right |-> right, top |-> top, bottom |-> bottom]

DefaultDimensions ==
    [ content |-> Rect(0, 0, 0, 0),
      padding |-> EdgeSizes(0, 0, 0, 0),
      border |-> EdgeSizes(0, 0, 0, 0),
      margin |-> EdgeSizes(0, 0, 0, 0) ]

\* Rc<StyleNode>: the style node a box refers to, named by its document node.
StyleRef(style) ==
    [node |-> style.node, kind |-> style.kind, specified_values |-> style.specified_values]

LayoutBox_new(box_type, style) ==
    [ box_type |-> box_type,
      style |-> style,
      dimensions |-> DefaultDimensions,
      children |-> <<>> ]

\* The outcome of a call that panicked instead of returning a box.
Panic == [box_type |-> "Panic"]

is_anon(box) ==
    IF box.children = <<>> THEN FALSE
    ELSE box.children[Len(box.children)].box_type = "AnonymousBlock"

get_inline_container_always_new(self) ==
    IF self.box_type \in {"InlineNode", "AnonymousBlock"} THEN self
    ELSE [self EXCEPT !.children = Append(@, LayoutBox_new("AnonymousBlock", self.style))]

\* The box after the call; the container is the box itself when it is not a
\* block and its last child otherwise.
get_inline_container(self) ==
    IF self.box_type \in {"InlineNode", "AnonymousBlock"} THEN self
    ELSE IF ~is_anon(self)
         THEN [self EXCEPT !.children = Append(@, LayoutBox_new("AnonymousBlock", self.style))]
         ELSE self

push_into_container(self, child) ==
    IF self.box_type \in {"InlineNode", "AnonymousBlock"}
    THEN [self EXCEPT !.children = Append(@, child)]
    ELSE [self EXCEPT !.children[Len(self.children)].children = Append(@, child)]

\* root.get_inline_container().children.push(child)
push_inline(root, child) == push_into_container(get_inline_container(root), child)

RECURSIVE build_layout_tree(_)
RECURSIVE build_children(_, _, _)

build_children_boxes_none(root, children, i) ==
    IF i > Len(children) THEN root
    ELSE LET child == children[i]
         IN  CASE display(child) = "Block" ->
                    build_children([root EXCEPT !.children = Append(@, build_layout_tree(child))],
                                   children, i + 1)
               [] display(child) = "Inline" ->
                    build_children(push_inline(root, build_layout_tree(child)), children, i + 1)
               [] OTHER ->
                    build_children(push_inline(root, LayoutBox_new("InlineNode", StyleRef(child))),
                                   children, i + 1)

build_children(root, children, i) ==
    IF i > Len(children) THEN root
    ELSE LET child == children[i]
         IN  CASE display(child) = "Block" ->
                    build_children([root EXCEPT !.children = Append(@, build_layout_tree(child))],
                                   children, i + 1)
               [] display(child) = "Inline" ->
                    build_children(push_inline(root, build_layout_tree(child)), children, i + 1)
               [] OTHER -> build_children(root, children, i + 1)

build_layout_tree(style_node) ==
    CASE display(style_node) = "Block" ->
            build_children(LayoutBox_new("BlockNode", StyleRef(style_node)),
                           style_node.children, 1)
      [] display(style_node) = "Inline" ->
            build_children(LayoutBox_new("InlineNode", StyleRef(style_node)),
                           style_node.children, 1)
      [] OTHER -> Panic

(***************************************************************************)
(* Block layout: robinson_layout/src/lib.rs                                *)
(***************************************************************************)
auto == Keyword("auto")
zero == Length(0, "Px")

RECURSIVE sum(_)
sum(values_px) == IF values_px = <<>> THEN 0 ELSE Head(values_px) + sum(Tail(values_px))

\* The underflow given whole to each margin.
Half_whole(x) == x

\* underflow / 2.0
Half(x) == IF x >= 0 THEN x \div 2 ELSE -((-x) \div 2)

expanded_by(rect, edge) ==
    Rect(rect.x - edge.left, rect.y - edge.top,
         rect.width + edge.left + edge.right, rect.height + edge.top + edge.bottom)

padding_box(d) == expanded_by(d.content, d.padding)
border_box(d) == expanded_by(padding_box(d), d.border)
margin_box(d) == expanded_by(border_box(d), d.margin)

\* Return the specified color for a property, or None.
get_color(style, name) ==
    LET value == get_value(style, name)
    IN  IF value # None /\ value[1].t = "Color" THEN Some(value[1].v) ELSE None

\* The match with a width that follows a negative underflow below 0.
used_values_negative_width(width, margin_left, margin_right, underflow) ==
    CASE width # auto /\ margin_left # auto /\ margin_right # auto ->
            [ width |-> width, margin_left |-> margin_left,
              margin_right |-> Length(to_px(margin_right) + underflow, "Px") ]
      [] width # auto /\ margin_left # auto /\ margin_right = auto ->
            [ width |-> width, margin_left |-> margin_left,
              margin_right |-> Length(underflow, "Px") ]
      [] width # auto /\ margin_left = auto /\ margin_right # auto ->
            [ width |-> width, margin_left |-> Length(underflow, "Px"),
              margin_right |-> margin_right ]
      [] width = auto ->
            [ width |-> Length(underflow, "Px"),
              margin_left |-> IF margin_left = auto THEN zero ELSE margin_left,
              margin_right |-> IF margin_right = auto THEN zero ELSE margin_right ]
      [] width # auto /\ margin_left = auto /\ margin_right = auto ->
            [ width |-> width, margin_left |-> Length(Half(underflow), "Px"),
              margin_right |-> Length(Half(underflow), "Px") ]

\* The match of calculate_block_width on (width == auto, margin_left == auto,
\* margin_right == auto): the used width and margins.
used_values(width, margin_left, margin_right, underflow) ==
    CASE width # auto /\ margin_left # auto /\ margin_right # auto ->
            [ width |-> width, margin_left |-> margin_left,
              margin_right |-> Length(to_px(margin_right) + underflow, "Px") ]
      [] width # auto /\ margin_left # auto /\ margin_right = auto ->
            [ width |-> width, margin_left |-> margin_left,
              margin_right |-> Length(underflow, "Px") ]
      [] width # auto /\ margin_left = auto /\ margin_right # auto ->
            [ width |-> width, margin_left |-> Length(underflow, "Px"),
              margin_right |-> margin_right ]
      [] width = auto /\ underflow >= 0 ->
            [ width |-> Length(underflow, "Px"),
              margin_left |-> IF margin_left = auto THEN zero ELSE margin_left,
              margin_right |-> IF margin_right = auto THEN zero ELSE margin_right ]
      [] width = auto /\ underflow < 0 ->
            [ width |-> zero,
              margin_left |-> IF margin_left = auto THEN zero ELSE margin_left,
              margin_right |->
                  Length(to_px(IF margin_right = auto THEN zero ELSE margin_right) + underflow,
                         "Px") ]
      [] width # auto /\ margin_left = auto /\ margin_right = auto ->
            [ width |-> width, margin_left |-> Length(Half(underflow), "Px"),
              margin_right |-> Length(Half(underflow), "Px") ]

\* Auto margins left as they are.
treat_auto_margin_never(width, total, container_width, margin) == margin

\* If width is not auto and the total is wider than the container, treat auto margins as 0.
treat_auto_margin(width, total, container_width, margin) ==
    IF width # auto /\ total > container_width /\ margin = auto THEN zero ELSE margin

set_block_width(self, used, border_left, border_right, padding_left, padding_right) ==
    [self EXCEPT !.dimensions.content.width = to_px(used.width),
                 !.dimensions.padding.left = to_px(padding_left),
                 !.dimensions.padding.right = to_px(padding_right),
                 !.dimensions.border.left = to_px(border_left),
                 !.dimensions.border.right = to_px(border_right),
                 !.dimensions.margin.left = to_px(used.margin_left),
                 !.dimensions.margin.right = to_px(used.margin_right)]

block_width_with_total(self, container_width, width, margin_left, margin_right, border_left, border_right, padding_left, padding_right, total) ==
    set_block_width(self,
                    used_values(width,
                                treat_auto_margin(width, total, container_width, margin_left),
                                treat_auto_margin(width, total, container_width, margin_right),
                                container_width - total),
                    border_left, border_right, padding_left, padding_right)

block_width_of(self, container_width, width, margin_left, margin_right, border_left, border_right, padding_left, padding_right) ==
    block_width_with_total(self, container_width, width, margin_left, margin_right,
                           border_left, border_right, padding_left, padding_right,
                           sum(<<to_px(margin_left), to_px(margin_right), to_px(border_left),
                                 to_px(border_right), to_px(padding_left),
                                 to_px(padding_right), to_px(width)>>))

calculate_block_width(self, containing_block) ==
    block_width_of(self, containing_block.content.width,
                   IF get_value(self.style, "width") = None THEN auto
                   ELSE get_value(self.style, "width")[1],
                   lookup(self.style, "margin-left", "margin", zero),
                   lookup(self.style, "margin-right", "margin", zero),
                   lookup(self.style, "border-left-width", "border-width", zero),
                   lookup(self.style, "border-right-width", "border-width", zero),
                   lookup(self.style, "padding-left", "padding", zero),
                   lookup(self.style, "padding-right", "padding", zero))

\* The position with y taken from the top of the containing block.
set_block_position_unstacked(self, containing_block, margin, border, padding) ==
    [self EXCEPT !.dimensions.margin = margin,
                 !.dimensions.border = border,
                 !.dimensions.padding = padding,
                 !.dimensions.content.x =
                     containing_block.content.x + margin.left + border.left + padding.left,
                 !.dimensions.content.y =
                     containing_block.content.y + margin.top + border.top + padding.top]

set_block_position(self, containing_block, margin, border, padding) ==
    [self EXCEPT !.dimensions.margin = margin,
                 !.dimensions.border = border,
                 !.dimensions.padding = padding,
                 !.dimensions.content.x =
                     containing_block.content.x + margin.left + border.left + padding.left,
                 !.dimensions.content.y =
                     containing_block.content.height + containing_block.content.y
                     + margin.top + border.top + padding.top]

calculate_block_position(self, containing_block) ==
    set_block_position(self, containing_block,
        [self.dimensions.margin EXCEPT
            !.top = to_px(lookup(self.style, "margin-top", "margin", zero)),
            !.bottom = to_px(lookup(self.style, "margin-bottom", "margin", zero))],
        [self.dimensions.border EXCEPT
            !.top = to_px(lookup(self.style, "border-top-width", "border-width", zero)),
            !.bottom = to_px(lookup(self.style, "border-bottom-width", "border-width", zero))],
        [self.dimensions.padding EXCEPT
            !.top = to_px(lookup(self.style, "padding-top", "padding", zero)),
            !.bottom = to_px(lookup(self.style, "padding-bottom", "padding", zero))])

set_block_height(self, h) ==
    IF h # None /\ h[1].t = "Length" /\ h[1].u = "Px"
    THEN [self EXCEPT !.dimensions.content.height = h[1].v]
    ELSE self

calculate_block_height(self) == set_block_height(self, get_value(self.style, "height"))

\* The RenderBlockBox layout_block returns for a laid-out box.
RenderBlockBox(self, children) ==
    [ kind |-> "Block",
      dimensions |->
        [self.dimensions EXCEPT !.border =
            EdgeSizes(to_px(lookup(self.style, "border-left-width", "border-width", zero)),
                      to_px(lookup(self.style, "border-bottom-right", "border-width", zero)),
                      to_px(lookup(self.style, "border-top-width", "border-width", zero)),
                      to_px(lookup(self.style, "border-bottom-width", "border-width", zero)))],
      color |-> get_color(self.style, "color"),
      background_color |-> get_color(self.style, "background"),
      border_color |-> get_color(self.style, "border-color"),
      children |-> children ]

\* A call of layout or layout_block yields the box as the call leaves it
\* and the render box it returns.
Laid(box, render) == [box |-> box, render |-> render]

finish_block(laid) ==
    Laid(calculate_block_height(laid.box),
         RenderBlockBox(calculate_block_height(laid.box), laid.render))

RECURSIVE layout(_, _)
RECURSIVE layout_children_from(_, _, _)
RECURSIVE after_child(_, _, _, _)

\* The loop body adding the height of the border box of the child.
after_child_border_box(self, i, rendered, r) ==
    layout_children_from(
        [self EXCEPT !.children[i] = r.box,
                     !.dimensions.content.height = @ + border_box(r.box.dimensions).height],
        i + 1, Append(rendered, r.render))

\* The body of the loop of layout_block_children, after child i was laid out.
after_child(self, i, rendered, r) ==
    layout_children_from(
        [self EXCEPT !.children[i] = r.box,
                     !.dimensions.content.height = @ + margin_box(r.box.dimensions).height],
        i + 1, Append(rendered, r.render))

layout_children_from(self, i, rendered) ==
    IF i > Len(self.children) THEN Laid(self, rendered)
    ELSE after_child(self, i, rendered, layout(self.children[i], self.dimensions))

layout_block_children(self) == layout_children_from(self, 1, <<>>)

layout_block(self, containing_block) ==
    finish_block(layout_block_children(
        calculate_block_position(calculate_block_width(self, containing_block),
                                 containing_block)))

\* A layout that lays out Inline and AnonymousBlock boxes as blocks.
layout_descends(self, containing_block) ==
    CASE self.box_type = "BlockNode" -> layout_block(self, containing_block)
      [] self.box_type = "InlineNode" ->
            Laid(layout_block(self, containing_block).box, [kind |-> "Inline"])
      [] self.box_type = "AnonymousBlock" ->
            Laid(layout_block(self, containing_block).box, [kind |-> "Anonymous"])

layout(self, containing_block) ==
    CASE self.box_type = "BlockNode" -> layout_block(self, containing_block)
      [] self.box_type = "InlineNode" -> Laid(self, [kind |-> "Inline"])
      [] self.box_type = "AnonymousBlock" -> Laid(self, [kind |-> "Anonymous"])

(***************************************************************************)
(* The display list: robinson_paint/src/lib.rs                             *)
(***************************************************************************)
SolidColor(color, rect) == [color |-> color, rect |-> rect]

\* The background over the margin box.
render_background_margin_box(list, layout_box) ==
    LET color == get_color(layout_box.style, "background")
    IN  IF color # None
        THEN Append(list, SolidColor(color[1], margin_box(layout_box.dimensions)))
        ELSE list

render_background(list, layout_box) ==
    LET color == get_color(layout_box.style, "background")
    IN  IF color # None
        THEN Append(list, SolidColor(color[1], border_box(layout_box.dimensions)))
        ELSE list

render_borders(list, layout_box) ==
    LET color == get_color(layout_box.style, "border-color")
        d == layout_box.dimensions
        bb == border_box(d)
    IN  IF color = None THEN list
        ELSE list \o
             << SolidColor(color[1], Rect(bb.x, bb.y, d.border.left, bb.height)),
                SolidColor(color[1], Rect(bb.x + bb.width - d.border.right, bb.y,
                                          d.border.right, bb.height)),
                SolidColor(color[1], Rect(bb.x, bb.y, bb.width, d.border.top)),
                SolidColor(color[1], Rect(bb.x, bb.y + bb.height - d.border.bottom,
                                          bb.width, d.border.bottom)) >>

RECURSIVE render_layout_box(_, _)
RECURSIVE render_children(_, _, _)

render_children(list, children, i) ==
    IF i > Len(children) THEN list
    ELSE render_children(render_layout_box(list, children[i]), children, i + 1)

\* The children painted before the box itself.
render_layout_box_children_first(list, layout_box) ==
    render_borders(render_background(render_children(list, layout_box.children, 1), layout_box),
                   layout_box)

render_layout_box(list, layout_box) ==
    render_children(render_borders(render_background(list, layout_box), layout_box),
                    layout_box.children, 1)

build_display_list(layout_box) == render_layout_box(<<>>, layout_box)

(***************************************************************************)
(* The pipeline of State::generate_canvas and generate_vertices            *)
(* (robinson_window/src/state.rs): the style tree, the render tree, the    *)
(* display list.                                                           *)
(***************************************************************************)
StyleTreeNew ==
    /\ pc = "parsed"
    /\ style_tree' = StyleNode_new(doc, 1, stylesheets)
    /\ pc' = "styled"
    /\ UNCHANGED <<elem, selector, matched, stylesheets, rules, values, doc, viewport,
                   layout_root, render_tree, display_list, pass>>

\* RenderTree::new(node, containing_block).  The height of the containing
\* block is zeroed before the box tree is built and restored after layout;
\* a panic of build_layout_tree leaves it zeroed and produces nothing.
\* build_layout_tree and layout, as RenderTree::new calls them; a panic of
\* build_layout_tree unwinds through it.
RenderTree_new(node, containing_block) ==
    IF build_layout_tree(node).box_type = "Panic" THEN Laid(Panic, Unset)
    ELSE layout(build_layout_tree(node), containing_block)

\* The outcome without the restored height.
RenderTreeOutcome_height_zeroed(out, og_height) ==
    IF out.box.box_type = "Panic"
    THEN /\ pc' = "panicked"
         /\ viewport' = [viewport EXCEPT !.content.height = 0]
         /\ UNCHANGED <<layout_root, render_tree>>
    ELSE /\ pc' = "laid_out"
         /\ layout_root' = out.box
         /\ render_tree' = [root |-> out.render]
         /\ viewport' = [viewport EXCEPT !.content.height = 0]

RenderTreeOutcome(out, og_height) ==
    IF out.box.box_type = "Panic"
    THEN /\ pc' = "panicked"
         /\ viewport' = [viewport EXCEPT !.content.height = 0]
         /\ UNCHANGED <<layout_root, render_tree>>
    ELSE /\ pc' = "laid_out"
         /\ layout_root' = out.box
         /\ render_tree' = [root |-> out.render]
         /\ viewport' = [viewport EXCEPT !.content.height = og_height]

RenderTreeNew ==
    /\ pc = "styled"
    /\ RenderTreeOutcome(
           RenderTree_new(style_tree, [viewport EXCEPT !.content.height = 0]),
           viewport.content.height)
    /\ UNCHANGED <<elem, selector, matched, stylesheets, rules, values, doc,
                   style_tree, display_list, pass>>

BuildDisplayList ==
    /\ pc = "laid_out"
    /\ display_list' = build_display_list(layout_root)
    /\ pc' = "painted"
    /\ UNCHANGED <<elem, selector, matched, stylesheets, rules, values, doc, viewport,
                   style_tree, layout_root, render_tree, pass>>

Next == StyleTreeNew \/ RenderTreeNew \/ BuildDisplayList

\* A second call of RenderTree::new with the same style tree and the same
\* containing block, right after the first has returned.
RenderTreeNewAgain ==
    /\ pc = "laid_out"
    /\ layout_root' = RenderTree_new(style_tree, [viewport EXCEPT !.content.height = 0]).box
    /\ render_tree' =
          [root |-> RenderTree_new(style_tree, [viewport EXCEPT !.content.height = 0]).render]
    /\ viewport' = [[viewport EXCEPT !.content.height = 0]
                       EXCEPT !.content.height = viewport.content.height]
    /\ pc' = "relaid"
    /\ UNCHANGED <<elem, selector, matched, stylesheets, rules, values, doc,
                   style_tree, display_list, pass>>

NextTwice == StyleTreeNew \/ RenderTreeNew \/ RenderTreeNewAgain

(***************************************************************************)
(* The layout pass of RenderTree::new step by step.  The boxes of the tree *)
(* are held by path (the child indices from the root), the calls of        *)
(* layout in progress are a stack of frames, and every call and phase is   *)
(* logged.  During the pass the viewport has its height zeroed.            *)
(***************************************************************************)
RECURSIVE PathsOf(_, _)
PathsOf(b, p) ==
    {p} \cup UNION {PathsOf(b.children[k], Append(p, k)) : k \in 1..Len(b.children)}

RECURSIVE BoxAt(_, _)
BoxAt(b, p) == IF p = <<>> THEN b ELSE BoxAt(b.children[Head(p)], Tail(p))

\* A box without its children, which are held under the longer paths.
FlatBox(b) ==
    [ box_type |-> b.box_type, style |-> b.style, dimensions |-> b.dimensions,
      arity |-> Len(b.children) ]

FlatBoxes(root) == [p \in PathsOf(root, <<>>) |-> FlatBox(BoxAt(root, p))]

RECURSIVE Assemble(_, _)
Assemble(boxes, p) ==
    [ box_type |-> boxes[p].box_type, style |-> boxes[p].style,
      dimensions |-> boxes[p].dimensions,
      children |-> [k \in 1..boxes[p].arity |-> Assemble(boxes, Append(p, k))] ]

Frame(path, at) == [path |-> path, pc |-> at, i |-> 1, rendered |-> <<>>, ret |-> Unset]
Event(ev, path, dimensions) == [ev |-> ev, path |-> path, dimensions |-> dimensions]

Depth == Len(pass.stack)
Top == pass.stack[Len(pass.stack)]
Front(p) == SubSeq(p, 1, Len(p) - 1)

\* The containing block a call of layout was given: the viewport for the
\* root, the dimensions of the parent for a child.
containing_block_of(p) == IF p = <<>> THEN viewport ELSE pass.boxes[Front(p)].dimensions

\* The height computed before the children are laid out.
phase_after_height_early(phase) ==
    CASE phase = "layout" -> "width"
      [] phase = "width" -> "position"
      [] phase = "position" -> "height"
      [] phase = "height" -> "children"
      [] phase = "children" -> "return"

\* The statements of layout_block in their order.
phase_after(phase) ==
    CASE phase = "layout" -> "width"
      [] phase = "width" -> "position"
      [] phase = "position" -> "children"
      [] phase = "children" -> "height"
      [] phase = "height" -> "return"

\* The stack after the top call has returned a render box to its caller.
returned_to(stack, render) ==
    IF Len(stack) = 1 THEN <<>>
    ELSE [Front(stack) EXCEPT ![Len(stack) - 1].pc = "after_child",
                              ![Len(stack) - 1].ret = render]

Stepping == pc = "layout_pass" /\ pass.stack # <<>>

RenderTreeBegin ==
    /\ pc = "styled"
    /\ viewport' = [viewport EXCEPT !.content.height = 0]
    /\ IF build_layout_tree(style_tree).box_type = "Panic"
       THEN pc' = "panicked" /\ UNCHANGED pass
       ELSE /\ pc' = "layout_pass"
            /\ pass' = [ boxes |-> FlatBoxes(build_layout_tree(style_tree)),
                         stack |-> <<Frame(<<>>, "layout")>>,
                         og_height |-> viewport.content.height,
                         log |-> <<>>,
                         result |-> Unset ]
    /\ UNCHANGED <<elem, selector, matched, stylesheets, rules, values, doc,
                   style_tree, layout_root, render_tree, display_list>>

LayoutCall ==
    /\ Stepping /\ Top.pc = "layout"
    /\ IF pass.boxes[Top.path].box_type = "BlockNode"
       THEN pass' = [pass EXCEPT !.stack[Depth].pc = phase_after("layout"),
                                 !.log = Append(@, Event("enter", Top.path, Unset))]
       ELSE pass' = [pass EXCEPT
                !.stack = returned_to(@,
                    [kind |-> IF pass.boxes[Top.path].box_type = "InlineNode"
                              THEN "Inline" ELSE "Anonymous"]),
                !.result = IF Depth = 1
                           THEN [kind |-> IF pass.boxes[Top.path].box_type = "InlineNode"
                                          THEN "Inline" ELSE "Anonymous"]
                           ELSE @,
                !.log = @ \o << Event("enter", Top.path, Unset),
                                Event("return", Top.path, pass.boxes[Top.path].dimensions) >>]
    /\ UNCHANGED <<pc, elem, selector, matched, stylesheets, rules, values, doc, viewport,
                   style_tree, layout_root, render_tree, display_list>>

CalculateBlockWidth ==
    /\ Stepping /\ Top.pc = "width"
    /\ pass' = [pass EXCEPT
            !.boxes[Top.path] = calculate_block_width(@, containing_block_of(Top.path)),
            !.stack[Depth].pc = phase_after("width"),
            !.log = Append(@, Event("width", Top.path, Unset))]
    /\ UNCHANGED <<pc, elem, selector, matched, stylesheets, rules, values, doc, viewport,
                   style_tree, layout_root, render_tree, display_list>>

CalculateBlockPosition ==
    /\ Stepping /\ Top.pc = "position"
    /\ pass' = [pass EXCEPT
            !.boxes[Top.path] = calculate_block_position(@, containing_block_of(Top.path)),
            !.stack[Depth].pc = phase_after("position"),
            !.log = Append(@, Event("position", Top.path, Unset))]
    /\ UNCHANGED <<pc, elem, selector, matched, stylesheets, rules, values, doc, viewport,
                   style_tree, layout_root, render_tree, display_list>>

\* The head of the loop of layout_block_children: the call of child.layout,
\* or the end of the loop.
LayoutChild ==
    /\ Stepping /\ Top.pc = "children"
    /\ IF Top.i <= pass.boxes[Top.path].arity
       THEN pass' = [pass EXCEPT
                !.stack = Append([@ EXCEPT ![Depth].pc = "in_child"],
                                 Frame(Append(Top.path, Top.i), "layout"))]
       ELSE pass' = [pass EXCEPT !.stack[Depth].pc = phase_after("children")]
    /\ UNCHANGED <<pc, elem, selector, matched, stylesheets, rules, values, doc, viewport,
                   style_tree, layout_root, render_tree, display_list>>

\* The rest of the loop body once child.layout has returned.
AfterChild ==
    /\ Stepping /\ Top.pc = "after_child"
    /\ pass' = [pass EXCEPT
            !.boxes[Top.path].dimensions.content.height =
                @ + margin_box(pass.boxes[Append(Top.path, Top.i)].dimensions).height,
            !.stack[Depth] = [@ EXCEPT !.pc = "children", !.i = @ + 1,
                                       !.rendered = Append(@, Top.ret), !.ret = Unset]]
    /\ UNCHANGED <<pc, elem, selector, matched, stylesheets, rules, values, doc, viewport,
                   style_tree, layout_root, render_tree, display_list>>

CalculateBlockHeight ==
    /\ Stepping /\ Top.pc = "height"
    /\ pass' = [pass EXCEPT
            !.boxes[Top.path] = calculate_block_height(@),
            !.stack[Depth].pc = phase_after("height"),
            !.log = Append(@, Event("height", Top.path, Unset))]
    /\ UNCHANGED <<pc, elem, selector, matched, stylesheets, rules, values, doc, viewport,
                   style_tree, layout_root, render_tree, display_list>>

LayoutBlockReturn ==
    /\ Stepping /\ Top.pc = "return"
    /\ pass' = [pass EXCEPT
            !.stack = returned_to(@, RenderBlockBox(pass.boxes[Top.path], Top.rendered)),
            !.result = IF Depth = 1 THEN RenderBlockBox(pass.boxes[Top.path], Top.rendered)
                       ELSE @,
            !.log = Append(@, Event("return", Top.path, pass.boxes[Top.path].dimensions))]
    /\ UNCHANGED <<pc, elem, selector, matched, stylesheets, rules, values, doc, viewport,
                   style_tree, layout_root, render_tree, display_list>>

RenderTreeEnd ==
    /\ pc = "layout_pass" /\ pass.stack = <<>>
    /\ viewport' = [viewport EXCEPT !.content.height = pass.og_height]
    /\ render_tree' = [root |-> pass.result]
    /\ layout_root' = Assemble(pass.boxes, <<>>)
    /\ pc' = "laid_out"
    /\ UNCHANGED <<elem, selector, matched, stylesheets, rules, values, doc,
                   style_tree, display_list, pass>>

NextSteps ==
    \/ StyleTreeNew \/ RenderTreeBegin \/ LayoutCall \/ CalculateBlockWidth
    \/ CalculateBlockPosition \/ LayoutChild \/ AfterChild \/ CalculateBlockHeight
    \/ LayoutBlockReturn \/ RenderTreeEnd \/ BuildDisplayList

(***************************************************************************)
(* Documents and their stylesheet.  Element i has the id i and the         *)
(* stylesheet holds one rule #i per element; the look of a node names its  *)
(* kind and the declarations of its rule.  The background of element i is  *)
(* the colour i, so a display command names the element whose style        *)
(* painted it.                                                             *)
(***************************************************************************)
ViewportHalfWidth == 400
ViewportHeight == 12

Viewport ==
    [DefaultDimensions EXCEPT !.content = Rect(0, 0, 2 * ViewportHalfWidth, ViewportHeight)]

ParentMaps(n) ==
    {f \in [1..n -> 0..(n - 1)] : f[1] = 0 /\ \A i \in 2..n : f[i] \in 1..(i - 1)}

NodeKind(look) == IF look \in {"text", "comment"} THEN
                      IF look = "text" THEN "Text" ELSE "Comment"
                  ELSE "Element"

DisplayDeclarations(look) ==
    CASE look = "plain" -> <<>>
      [] look = "length" -> << <<"display", Length(2, "Px")>> >>
      [] OTHER -> << <<"display", Keyword(look)>> >>

Document(n, parent, look) ==
    [i \in 1..n |->
        [ kind |-> NodeKind(look[i]),
          parent |-> parent[i],
          element |-> IF NodeKind(look[i]) = "Element" THEN Element("div", Some(i), {})
                      ELSE Unset ]]

IdSelector(i) == SimpleSelector(None, Some(i), {})

Rule(selectors, declarations) ==
    [kind |-> "Normal", selectors |-> selectors, declarations |-> declarations]

\* One rule #i for every element i, in document order.
RECURSIVE RulesFor(_, _, _)
RulesFor(n, i, declarations) ==
    IF i > n THEN <<>>
    ELSE (IF declarations[i] = None THEN <<>>
          ELSE <<Rule(<<IdSelector(i)>>, declarations[i][1])>>)
         \o RulesFor(n, i + 1, declarations)

BoxLooks == {"text", "comment", "block", "plain", "none", "table"}

BoxDeclarations(look, i) ==
    IF NodeKind(look) = "Element"
    THEN Some(DisplayDeclarations(look) \o << <<"background", Color(i)>> >>)
    ELSE None

WellFormed(n, parent, look) == \A i \in 2..n : NodeKind(look[parent[i]]) = "Element"

Init ==
    /\ pc = "parsed"
    /\ \E n \in 1..MaxNodes : \E parent \in ParentMaps(n) : \E look \in [1..n -> BoxLooks] :
          /\ WellFormed(n, parent, look)
          /\ doc = Document(n, parent, look)
          /\ stylesheets =
                <<StyleSheet(RulesFor(n, 1, [i \in 1..n |-> BoxDeclarations(look[i], i)]))>>
    /\ viewport = Viewport
    /\ elem = Unset /\ selector = Unset /\ matched = Unset /\ rules = Unset /\ values = Unset
    /\ style_tree = Unset /\ layout_root = Unset /\ render_tree = Unset
    /\ display_list = Unset /\ pass = Unset

Spec == Init /\ [][Next]_vars

(***************************************************************************)
(* Documents of the layout specification: block elements, one of them with *)
(* a width, margins, borders and padding drawn from LayoutLooks, the       *)
(* others plain: "block" has an automatic width and padding, "tall" is a   *)
(* 100x50 box with padding 10, borders 5 and margins 2, "text" is a text   *)
(* node.  Element i paints its background with colour i and its borders    *)
(* with colour -i.  Every containing width is even.  The two margins are   *)
(* both absent or both given, each as auto or as a length.                 *)
(***************************************************************************)
LayoutLooks ==
    { look \in [ width : {"absent", "auto", "4px", "wide"},
                 margin_left : {"absent", "auto", "2px"},
                 margin_right : {"absent", "auto", "2px"},
                 border : {"absent", "all", "right"},
                 padding : {"absent", "2px"} ] :
        look.margin_left = "absent" <=> look.margin_right = "absent" }

PlainLooks == {"block", "tall", "text"}

Pixels(choice) ==
    CASE choice = "2px" -> 2
      [] choice = "4px" -> 4
      [] choice = "wide" -> 2 * ViewportHalfWidth + 24

LengthDeclaration(name, choice) ==
    CASE choice = "absent" -> <<>>
      [] choice = "auto" -> << <<name, auto>> >>
      [] OTHER -> << <<name, Length(Pixels(choice), "Px")>> >>

BorderDeclarations(choice, i) ==
    CASE choice = "absent" -> <<>>
      [] choice = "all" ->
            << <<"border-width", Length(2, "Px")>>, <<"border-color", Color(0 - i)>> >>
      [] choice = "right" ->
            << <<"border-right-width", Length(2, "Px")>>, <<"border-color", Color(0 - i)>> >>

LayoutDeclarations(look, i) ==
    << <<"display", Keyword("block")>>, <<"background", Color(i)>> >>
    \o LengthDeclaration("width", look.width)
    \o LengthDeclaration("margin-left", look.margin_left)
    \o LengthDeclaration("margin-right", look.margin_right)
    \o BorderDeclarations(look.border, i)
    \o LengthDeclaration("padding", look.padding)

PlainDeclarations(look, i) ==
    CASE look = "block" ->
            Some(<< <<"display", Keyword("block")>>, <<"background", Color(i)>>,
                    <<"padding", Length(6, "Px")>> >>)
      [] look = "tall" ->
            Some(<< <<"display", Keyword("block")>>, <<"background", Color(i)>>,
                    <<"border-color", Color(0 - i)>>,
                    <<"width", Length(100, "Px")>>, <<"height", Length(50, "Px")>>,
                    <<"padding", Length(10, "Px")>>, <<"border-width", Length(5, "Px")>>,
                    <<"margin", Length(2, "Px")>> >>)
      [] look = "text" -> None

InitLayout ==
    /\ pc = "parsed"
    /\ \E n \in 1..MaxLayoutNodes : \E parent \in ParentMaps(n) : \E rich \in 1..n :
       \E look \in LayoutLooks : \E plain \in [1..n -> PlainLooks] :
          /\ plain[rich] = "block"
          /\ WellFormed(n, parent, plain)
          /\ doc = Document(n, parent, plain)
          /\ stylesheets =
                <<StyleSheet(RulesFor(n, 1,
                    [i \in 1..n |-> IF i = rich THEN Some(LayoutDeclarations(look, i))
                                    ELSE PlainDeclarations(plain[i], i)]))>>
    /\ viewport = Viewport
    /\ elem = Unset /\ selector = Unset /\ matched = Unset /\ rules = Unset /\ values = Unset
    /\ style_tree = Unset /\ layout_root = Unset /\ render_tree = Unset
    /\ display_list = Unset /\ pass = Unset

SpecLayout == InitLayout /\ [][Next]_vars

(***************************************************************************)
(* Documents of the flow specification: every node is a text node, an      *)
(* inline element with a background, a "block" or a "tall" element as      *)
(* above, or a "centred" element with a width, a height and auto margins   *)
(* on all four sides.                                                      *)
(***************************************************************************)
MaxFlowNodes == 3

FlowLooks == {"text", "inline", "block", "tall", "centred"}

FlowDeclarations(look, i) ==
    CASE look \in {"block", "tall", "text"} -> PlainDeclarations(look, i)
      [] look = "inline" -> Some(<< <<"background", Color(i)>> >>)
      [] look = "centred" ->
            Some(<< <<"display", Keyword("block")>>, <<"background", Color(i)>>,
                    <<"width", Length(40, "Px")>>, <<"height", Length(20, "Px")>>,
                    <<"margin", auto>>, <<"border-top-width", Length(4, "Px")>>,
                    <<"border-color", Color(0 - i)>> >>)

InitFlow ==
    /\ pc = "parsed"
    /\ \E n \in 1..MaxFlowNodes : \E parent \in ParentMaps(n) :
       \E look \in [1..n -> FlowLooks] :
          /\ WellFormed(n, parent, look)
          /\ doc = Document(n, parent, look)
          /\ stylesheets =
                <<StyleSheet(RulesFor(n, 1, [i \in 1..n |-> FlowDeclarations(look[i], i)]))>>
    /\ viewport = Viewport
    /\ elem = Unset /\ selector = Unset /\ matched = Unset /\ rules = Unset /\ values = Unset
    /\ style_tree = Unset /\ layout_root = Unset /\ render_tree = Unset
    /\ display_list = Unset /\ pass = Unset

SpecFlow == InitFlow /\ [][Next]_vars

SpecTwice == InitFlow /\ [][NextTwice]_vars

SpecSteps == InitFlow /\ [][NextSteps]_vars

(***************************************************************************)
(* Documents of the value specification: block elements, each with one     *)
(* property of the box model that is absent, a pixel length, a length in   *)
(* another unit or a keyword that is not auto.                             *)
(***************************************************************************)
MaxValueNodes == 2

ValueProperties ==
    {"width", "height", "margin", "margin-top", "border-width", "border-left-width",
     "padding", "padding-right"}

ValueChoices == {"absent", "4px", "4em", "thick"}

ValueLooks == [property : ValueProperties, value : ValueChoices]

ValueDeclarations(look, i) ==
    << <<"display", Keyword("block")>>, <<"background", Color(i)>> >>
    \o CASE look.value = "absent" -> <<>>
          [] look.value = "4px" -> << <<look.property, Length(4, "Px")>> >>
          [] look.value = "4em" -> << <<look.property, Length(4, "Em")>> >>
          [] look.value = "thick" -> << <<look.property, Keyword("thick")>> >>

InitValues ==
    /\ pc = "parsed"
    /\ \E n \in 1..MaxValueNodes : \E parent \in ParentMaps(n) :
       \E look \in [1..n -> ValueLooks] :
          /\ doc = Document(n, parent, [i \in 1..n |-> "block"])
          /\ stylesheets =
                <<StyleSheet(RulesFor(n, 1,
                    [i \in 1..n |-> Some(ValueDeclarations(look[i], i))]))>>
    /\ viewport = Viewport
    /\ elem = Unset /\ selector = Unset /\ matched = Unset /\ rules = Unset /\ values = Unset
    /\ style_tree = Unset /\ layout_root = Unset /\ render_tree = Unset
    /\ display_list = Unset /\ pass = Unset

SpecValues == InitValues /\ [][Next]_vars

(***************************************************************************)
(* Properties of the cascade.                                              *)
(***************************************************************************)
RECURSIVE Concat(_, _)
Concat(sheets, i) ==
    IF i > Len(sheets) THEN <<>> ELSE sheets[i].rules \o Concat(sheets, i + 1)

\* Every rule of every stylesheet, in encounter order.
FlatRules == Concat(stylesheets, 1)

\* The three conditions of selector matching, as the specification words them.
SelectorAccepts(e, sel) ==
    /\ sel.tag_name = None \/ sel.tag_name = Some(e.name)
    /\ sel.id = None \/ e.id = sel.id
    /\ sel.class \subseteq e.classes

Declares(rule, p) == \E i \in 1..Len(rule.declarations) : rule.declarations[i][1] = p

DeclaredValue(rule, p) ==
    LET last == CHOOSE i \in 1..Len(rule.declarations) :
                    /\ rule.declarations[i][1] = p
                    /\ \A j \in (i + 1)..Len(rule.declarations) : rule.declarations[j][1] # p
    IN  rule.declarations[last][2]

\* Position of a matched rule in the encounter order.
Encounter(m) == CHOOSE k \in 1..Len(FlatRules) : FlatRules[k] = m.rule

Contenders(p) == {i \in 1..Len(rules) : Declares(rules[i].rule, p)}

\* C1: for every property p declared by a matching rule, the resolved map
\* holds the value declared by a matching rule of the highest specificity
\* among those that declare p.
C1_HighestSpecificityWins ==
    pc = "cascade_done" =>
        \A p \in {"color", "width"} :
            Contenders(p) # {} =>
                /\ p \in DOMAIN values
                /\ \E i \in Contenders(p) :
                      /\ \A j \in Contenders(p) : ~SpecLess(rules[i].spec, rules[j].spec)
                      /\ values[p] = DeclaredValue(rules[i].rule, p)

\* C2: of two matching rules of equal specificity that both declare p, the
\* one encountered earlier never supplies the resolved value; when they are
\* the only matching rules that declare p, the later one supplies it.
C2_TiesLaterWins ==
    pc = "cascade_done" =>
        \A p \in {"color", "width"} : \A i, j \in Contenders(p) :
            (rules[i].spec = rules[j].spec /\ Encounter(rules[i]) < Encounter(rules[j])) =>
                /\ values[p] # DeclaredValue(rules[i].rule, p)
                /\ Contenders(p) = {i, j} => values[p] = DeclaredValue(rules[j].rule, p)

C2_Witness ==
    /\ pc = "cascade_done"
    /\ Len(stylesheets[1].rules) = 1 /\ Len(stylesheets[2].rules) = 1
    /\ Len(rules) = 2 /\ rules[1].spec = rules[2].spec
    /\ rules[1].spec = <<0, 1, 0>>
    /\ values["color"] = DeclaredValue(stylesheets[2].rules[1], "color")

\* C3: matches_simple_selector(E, S) is true exactly when S has no tag name
\* or E's tag name, no id or E's id, and only classes that E has.
C3_SelectorMatching ==
    pc = "match_done" => (matched <=> SelectorAccepts(elem, selector))

C3_Witness ==
    /\ pc = "match_done" /\ matched
    /\ selector.tag_name # None /\ selector.id # None /\ selector.class = {"bar"}
    /\ elem.classes = {"bar", "baz"}

Styled == pc \in {"styled", "panicked", "laid_out", "painted"}
Built == pc \in {"laid_out", "painted"}

RECURSIVE StyleNodes(_)
StyleNodes(t) == {t} \cup UNION {StyleNodes(t.children[k]) : k \in 1..Len(t.children)}

RECURSIVE StylePreOrder(_)
RECURSIVE StylePreOrderOf(_, _)
StylePreOrderOf(children, i) ==
    IF i > Len(children) THEN <<>>
    ELSE StylePreOrder(children[i]) \o StylePreOrderOf(children, i + 1)
StylePreOrder(t) == <<t.node>> \o StylePreOrderOf(t.children, 1)

RECURSIVE Boxes(_)
Boxes(b) == {b} \cup UNION {Boxes(b.children[k]) : k \in 1..Len(b.children)}

NodeIds(seq) == [k \in 1..Len(seq) |-> seq[k].node]
Increasing(seq) == \A k \in 1..(Len(seq) - 1) : seq[k] < seq[k + 1]
Range(seq) == {seq[k] : k \in 1..Len(seq)}

\* C5: the style tree is isomorphic to the document tree: every document
\* node has exactly one style node, the children of a style node are the
\* style nodes of the children of its document node in the same order, and
\* a text node's style node has an empty property map and no children.
C5_StyleTreeShape ==
    Styled =>
        /\ style_tree.node = 1
        /\ Len(StylePreOrder(style_tree)) = Len(doc)
        /\ Range(StylePreOrder(style_tree)) = 1..Len(doc)
        /\ \A s \in StyleNodes(style_tree) :
              /\ s.kind = doc[s.node].kind
              /\ Increasing(NodeIds(s.children))
              /\ Range(NodeIds(s.children)) = {j \in 1..Len(doc) : doc[j].parent = s.node}
              /\ s.kind = "Text" => DOMAIN s.specified_values = {} /\ s.children = <<>>

C5_Witness ==
    /\ pc = "styled"
    /\ Len(doc) = 4
    /\ Len(style_tree.children) = 2
    /\ style_tree.children[1].kind = "Element"
    /\ Len(style_tree.children[1].children) = 1
    /\ style_tree.children[1].children[1].kind = "Text"
    /\ style_tree.children[2].kind = "Text"

\* The value of the display property of a style node when it is a keyword.
DisplayKeyword(s) ==
    IF "display" \in DOMAIN s.specified_values /\ s.specified_values["display"].t = "Keyword"
    THEN s.specified_values["display"].s
    ELSE "-"

BoxesOf(n) == {b \in Boxes(layout_root) : b.box_type # "AnonymousBlock" /\ b.style.node = n}

\* C6: a style node is treated as block exactly when its display is the
\* keyword block, as none exactly when it is none, and as inline otherwise:
\* under a parent that has a box, such a node generates an Inline box.
C6_DisplayDerivation ==
    /\ pc = "panicked" => DisplayKeyword(style_tree) = "none"
    /\ Built =>
          \A s \in StyleNodes(style_tree) :
              (s = style_tree \/ BoxesOf(s.node) # {}) =>
                  /\ s = style_tree =>
                        /\ DisplayKeyword(s) # "none"
                        /\ layout_root.style.node = s.node
                        /\ layout_root.box_type =
                              IF DisplayKeyword(s) = "block" THEN "BlockNode" ELSE "InlineNode"
                  /\ \A k \in 1..Len(s.children) :
                        LET c == s.children[k]
                        IN  CASE DisplayKeyword(c) = "block" ->
                                    \E b \in BoxesOf(c.node) : b.box_type = "BlockNode"
                              [] DisplayKeyword(c) = "none" -> BoxesOf(c.node) = {}
                              [] OTHER -> \E b \in BoxesOf(c.node) : b.box_type = "InlineNode"

\* The style tree without the subtrees of its non-root display: none nodes.
RECURSIVE Pruned(_)
RECURSIVE PrunedChildren(_, _)
PrunedChildren(children, i) ==
    IF i > Len(children) THEN <<>>
    ELSE (IF DisplayKeyword(children[i]) = "none" THEN <<>> ELSE <<Pruned(children[i])>>)
         \o PrunedChildren(children, i + 1)
Pruned(t) == [t EXCEPT !.children = PrunedChildren(t.children, 1)]

\* The style nodes of the child boxes of a box, an anonymous block standing
\* for its own children.
RECURSIVE FlatChildren(_, _)
FlatChildren(children, i) ==
    IF i > Len(children) THEN <<>>
    ELSE (IF children[i].box_type = "AnonymousBlock"
          THEN NodeIds([k \in 1..Len(children[i].children) |-> children[i].children[k].style])
          ELSE <<children[i].style.node>>)
         \o FlatChildren(children, i + 1)

HiddenNodes ==
    UNION { UNION { Range(StylePreOrder(s.children[k])) :
                      k \in {j \in 1..Len(s.children) : DisplayKeyword(s.children[j]) = "none"} }
            : s \in StyleNodes(style_tree) }

C8_RootNoneReturnsError ==
    (pc # "parsed" /\ pc # "styled" /\ DisplayKeyword(style_tree) = "none") =>
        /\ pc = "error_returned"
        /\ layout_root = Unset /\ render_tree = Unset /\ display_list = Unset

\* C9: under a Block box the children are Block and AnonymousBlock boxes, no
\* two AnonymousBlock boxes are adjacent, an AnonymousBlock holds one or more
\* Inline boxes and carries the style of its Block parent, the child boxes
\* are those of the style children that generate boxes, in document order;
\* under an Inline box there is no AnonymousBlock.
C9_AnonymousBoxes ==
    Built =>
        /\ layout_root.box_type # "AnonymousBlock"
        /\ \A b \in Boxes(layout_root) :
              /\ b.box_type = "BlockNode" =>
                    \A k \in 1..Len(b.children) :
                        /\ b.children[k].box_type \in {"BlockNode", "AnonymousBlock"}
                        /\ b.children[k].box_type = "AnonymousBlock" =>
                              /\ b.children[k].style = b.style
                              /\ k > 1 => b.children[k - 1].box_type # "AnonymousBlock"
              /\ b.box_type = "AnonymousBlock" =>
                    /\ b.children # <<>>
                    /\ \A k \in 1..Len(b.children) : b.children[k].box_type = "InlineNode"
              /\ b.box_type = "InlineNode" =>
                    \A k \in 1..Len(b.children) :
                        b.children[k].box_type \in {"BlockNode", "InlineNode"}
        /\ \A s \in StyleNodes(style_tree) : \A b \in BoxesOf(s.node) :
              /\ Increasing(FlatChildren(b.children, 1))
              /\ Range(FlatChildren(b.children, 1)) =
                    {s.children[k].node : k \in {j \in 1..Len(s.children) :
                                                   display(s.children[j]) \in {"Block", "Inline"}}}
              /\ \A k \in 1..Len(s.children) : \A c \in BoxesOf(s.children[k].node) :
                    c.box_type = IF display(s.children[k]) = "Block" THEN "BlockNode"
                                 ELSE "InlineNode"

C9_Witness ==
    /\ pc = "laid_out"
    /\ layout_root.box_type = "BlockNode"
    /\ Len(style_tree.children) = 3
    /\ \A k \in 1..3 : style_tree.children[k].kind = "Text"
    /\ Len(layout_root.children) = 1
    /\ layout_root.children[1].box_type = "AnonymousBlock"
    /\ Len(layout_root.children[1].children) = 3

(***************************************************************************)
(* Properties of block layout.                                             *)
(***************************************************************************)
HorizontalSum(d) ==
    d.margin.left + d.border.left + d.padding.left + d.content.width
    + d.padding.right + d.border.right + d.margin.right

\* Every Block render box with every Block render box among its children
\* satisfies the horizontal equation against its containing block.
RECURSIVE WidthsFill(_, _)
WidthsFill(render, container_width) ==
    render.kind = "Block" =>
        /\ HorizontalSum(render.dimensions) = container_width
        /\ \A k \in 1..Len(render.children) :
              WidthsFill(render.children[k], render.dimensions.content.width)

\* C10: in the Dimensions of every Block box that layout returns, the two
\* margins, borders and paddings and the content width add up to the
\* content width of the containing block.
C10_HorizontalSum ==
    Built => WidthsFill(render_tree.root, viewport.content.width)

\* The laid-out Block boxes of the tree of b, each with the content
\* rectangle of its containing block and the siblings that precede it.
RECURSIVE LaidBlocks(_, _, _)
LaidBlocks(b, c, preceding) ==
    IF b.box_type # "BlockNode" THEN {}
    ELSE {[box |-> b, container |-> c, preceding |-> preceding]}
         \cup UNION { LaidBlocks(b.children[k], b.dimensions.content,
                                 SubSeq(b.children, 1, k - 1)) : k \in 1..Len(b.children) }

AllLaid == LaidBlocks(layout_root, viewport.content, <<>>)

\* What the style of a box specifies: a property, or its shorthand, or 0.
Specifies(b, name) == name \in DOMAIN b.style.specified_values

Specified(b, name, shorthand) ==
    IF Specifies(b, name) THEN b.style.specified_values[name]
    ELSE IF Specifies(b, shorthand) THEN b.style.specified_values[shorthand]
    ELSE [t |-> "Length", s |-> "-", v |-> 0, u |-> "Px"]

IsAuto(value) == value.t = "Keyword" /\ value.s = "auto"
Px(value) == IF IsAuto(value) THEN 0 ELSE value.v

WidthIsAuto(b) == ~Specifies(b, "width") \/ IsAuto(b.style.specified_values["width"])
MarginLeft(b) == Specified(b, "margin-left", "margin")
MarginRight(b) == Specified(b, "margin-right", "margin")

\* The six horizontal quantities other than the width, auto counting as 0.
SixOthers(b) ==
    Px(MarginLeft(b)) + Px(MarginRight(b))
    + Px(Specified(b, "border-left-width", "border-width"))
    + Px(Specified(b, "border-right-width", "border-width"))
    + Px(Specified(b, "padding-left", "padding"))
    + Px(Specified(b, "padding-right", "padding"))

SpecifiedWidth(b) == IF WidthIsAuto(b) THEN 0 ELSE Px(b.style.specified_values["width"])
Underflow(e) == e.container.width - (SixOthers(e.box) + SpecifiedWidth(e.box))

\* The paddings and borders of a box are the specified ones.
KeepsPaddingAndBorders(b) ==
    /\ b.dimensions.padding.left = Px(Specified(b, "padding-left", "padding"))
    /\ b.dimensions.padding.right = Px(Specified(b, "padding-right", "padding"))
    /\ b.dimensions.border.left = Px(Specified(b, "border-left-width", "border-width"))
    /\ b.dimensions.border.right = Px(Specified(b, "border-right-width", "border-width"))

\* C11: a Block box whose width is auto gets margins with auto as 0; its
\* content width is the underflow when that is not negative, and otherwise
\* 0 with the underflow added to margin-right; the width is never negative,
\* and it is 800 in a containing block 800 wide when the six other
\* quantities are 0.
C11_WidthAuto ==
    Built => \A e \in AllLaid :
        WidthIsAuto(e.box) =>
            /\ e.box.dimensions.margin.left = Px(MarginLeft(e.box))
            /\ Underflow(e) >= 0 =>
                  /\ e.box.dimensions.content.width = Underflow(e)
                  /\ e.box.dimensions.margin.right = Px(MarginRight(e.box))
            /\ Underflow(e) < 0 =>
                  /\ e.box.dimensions.content.width = 0
                  /\ e.box.dimensions.margin.right = Px(MarginRight(e.box)) + Underflow(e)
            /\ e.box.dimensions.content.width >= 0
            /\ (SixOthers(e.box) = 0 /\ e.container.width = 800) =>
                  e.box.dimensions.content.width = 800

\* A box of automatic width whose six other quantities exceed its containing
\* block: its width is 0 and its margin-right negative.
C11_Witness ==
    /\ Built
    /\ \E e \in AllLaid :
          /\ WidthIsAuto(e.box) /\ Underflow(e) < 0
          /\ e.box.dimensions.content.width = 0
          /\ e.box.dimensions.margin.right < 0

\* C12: a Block box whose width is not auto, with no auto margin or with
\* the seven quantities exceeding the containing width, keeps its width,
\* margin-left (auto as 0), paddings and borders, and gets the whole
\* underflow added to margin-right (auto as 0).
C12_OverConstrained ==
    Built => \A e \in AllLaid :
        ( /\ ~WidthIsAuto(e.box)
          /\ \/ ~IsAuto(MarginLeft(e.box)) /\ ~IsAuto(MarginRight(e.box))
             \/ Underflow(e) < 0 ) =>
            /\ e.box.dimensions.content.width = SpecifiedWidth(e.box)
            /\ e.box.dimensions.margin.left = Px(MarginLeft(e.box))
            /\ KeepsPaddingAndBorders(e.box)
            /\ e.box.dimensions.margin.right = Px(MarginRight(e.box)) + Underflow(e)

\* An explicit width wider than its containing block with margin-left auto:
\* the margin is forced to 0 and margin-right takes the negative underflow.
C12_Witness ==
    /\ Built
    /\ \E e \in AllLaid :
          /\ ~WidthIsAuto(e.box) /\ IsAuto(MarginLeft(e.box)) /\ Underflow(e) < 0
          /\ Px(MarginRight(e.box)) > 0
          /\ e.box.dimensions.margin.left = 0
          /\ e.box.dimensions.margin.right = Px(MarginRight(e.box)) + Underflow(e)

\* C13: a Block box whose width is not auto and whose seven quantities do
\* not exceed the containing width gets the underflow in its one auto
\* margin, or half of it in each when both are auto; the other margin and
\* the width are unchanged.
C13_AutoMargins ==
    Built => \A e \in AllLaid :
        (~WidthIsAuto(e.box) /\ Underflow(e) >= 0) =>
            /\ e.box.dimensions.content.width = SpecifiedWidth(e.box)
            /\ (~IsAuto(MarginLeft(e.box)) /\ IsAuto(MarginRight(e.box))) =>
                  /\ e.box.dimensions.margin.right = Underflow(e)
                  /\ e.box.dimensions.margin.left = Px(MarginLeft(e.box))
            /\ (IsAuto(MarginLeft(e.box)) /\ ~IsAuto(MarginRight(e.box))) =>
                  /\ e.box.dimensions.margin.left = Underflow(e)
                  /\ e.box.dimensions.margin.right = Px(MarginRight(e.box))
            /\ (IsAuto(MarginLeft(e.box)) /\ IsAuto(MarginRight(e.box))) =>
                  /\ e.box.dimensions.margin.left = e.box.dimensions.margin.right
                  /\ 2 * e.box.dimensions.margin.left = Underflow(e)

\* A centred box: both margins auto and a positive underflow.
C13_Witness ==
    /\ Built
    /\ \E e \in AllLaid :
          /\ ~WidthIsAuto(e.box)
          /\ IsAuto(MarginLeft(e.box)) /\ IsAuto(MarginRight(e.box))
          /\ Underflow(e) > 0
          /\ e.box.dimensions.margin.left > 0
          /\ e.box.dimensions.margin.left = e.box.dimensions.margin.right

\* The height of the margin box: content, padding, border and margin.
MarginBoxHeight(d) ==
    d.margin.top + d.border.top + d.padding.top + d.content.height
    + d.padding.bottom + d.border.bottom + d.margin.bottom

MarginBoxTop(d) == d.content.y - d.padding.top - d.border.top - d.margin.top

RECURSIVE HeightsOf(_, _)
HeightsOf(boxes, i) ==
    IF i > Len(boxes) THEN 0
    ELSE MarginBoxHeight(boxes[i].dimensions) + HeightsOf(boxes, i + 1)

\* The Block boxes among a sequence of boxes, in order.
RECURSIVE BlocksAmong(_, _)
BlocksAmong(boxes, i) ==
    IF i > Len(boxes) THEN <<>>
    ELSE (IF boxes[i].box_type = "BlockNode" THEN <<boxes[i]>> ELSE <<>>)
         \o BlocksAmong(boxes, i + 1)

\* The margin boxes of the Block children of b stack from its content top.
Stacked(b) ==
    LET blocks == BlocksAmong(b.children, 1)
    IN  \A k \in 1..Len(blocks) :
            MarginBoxTop(blocks[k].dimensions) =
                IF k = 1 THEN b.dimensions.content.y
                ELSE MarginBoxTop(blocks[k - 1].dimensions)
                     + MarginBoxHeight(blocks[k - 1].dimensions)

\* C14: every laid-out Block box has its content x at the content x of its
\* containing block plus its left margin, border and padding, and its
\* content y at the content y of the containing block plus the margin-box
\* heights of its preceding siblings plus its top margin, border and
\* padding; the margin boxes of Block siblings follow one another from the
\* content top of the parent.
C14_PositionAndStacking ==
    Built => \A e \in AllLaid :
        /\ e.box.dimensions.content.x =
              e.container.x + e.box.dimensions.margin.left
              + e.box.dimensions.border.left + e.box.dimensions.padding.left
        /\ e.box.dimensions.content.y =
              e.container.y + HeightsOf(e.preceding, 1) + e.box.dimensions.margin.top
              + e.box.dimensions.border.top + e.box.dimensions.padding.top
        /\ Stacked(e.box)

\* A Block box below a Block sibling whose margin box has a height, both
\* inside a parent that does not start at the origin.
C14_Witness ==
    /\ Built
    /\ \E e \in AllLaid :
          /\ Len(e.preceding) > 0
          /\ e.preceding[Len(e.preceding)].box_type = "BlockNode"
          /\ HeightsOf(e.preceding, 1) > 0
          /\ e.container.y > 0 /\ e.container.x > 0
          /\ e.box.dimensions.margin.top > 0
          /\ e.box.dimensions.content.y > e.container.y + HeightsOf(e.preceding, 1)

RECURSIVE ChildrenHeight(_, _)
ChildrenHeight(boxes, i) ==
    IF i > Len(boxes) THEN 0
    ELSE (IF boxes[i].box_type = "BlockNode" THEN MarginBoxHeight(boxes[i].dimensions) ELSE 0)
         + ChildrenHeight(boxes, i + 1)

HasPixelHeight(b) ==
    /\ Specifies(b, "height")
    /\ b.style.specified_values["height"].t = "Length"
    /\ b.style.specified_values["height"].u = "Px"

\* C15: the content height of a laid-out Block box is the pixel height its
\* style specifies, and without one the sum of the margin-box heights of
\* its Block children, Inline and AnonymousBlock children adding 0.
C15_BlockHeight ==
    Built => \A e \in AllLaid :
        /\ HasPixelHeight(e.box) =>
              e.box.dimensions.content.height = e.box.style.specified_values["height"].v
        /\ ~HasPixelHeight(e.box) =>
              e.box.dimensions.content.height = ChildrenHeight(e.box.children, 1)
        /\ \A k \in 1..Len(e.box.children) :
              e.box.children[k].box_type # "BlockNode" =>
                  MarginBoxHeight(e.box.children[k].dimensions) = 0

\* A Block box without a height of its own around an anonymous box and a
\* Block child with margins, borders and padding.
C15_Witness ==
    /\ Built
    /\ \E e \in AllLaid :
          /\ ~HasPixelHeight(e.box)
          /\ \E k \in 1..Len(e.box.children) : e.box.children[k].box_type = "AnonymousBlock"
          /\ \E k \in 1..Len(e.box.children) :
                /\ e.box.children[k].box_type = "BlockNode"
                /\ e.box.children[k].dimensions.margin.bottom > 0
                /\ e.box.children[k].dimensions.content.height > 0
          /\ e.box.dimensions.content.height > 0

(***************************************************************************)
(* Properties of the display list.                                         *)
(***************************************************************************)
Painted == pc = "painted"

\* The boxes of a box tree in pre-order.
RECURSIVE BoxPreOrder(_)
RECURSIVE BoxPreOrderOf(_, _)
BoxPreOrderOf(children, i) ==
    IF i > Len(children) THEN <<>>
    ELSE BoxPreOrder(children[i]) \o BoxPreOrderOf(children, i + 1)

BoxPreOrder(b) == <<b>> \o BoxPreOrderOf(b.children, 1)

\* The border box of a box, from its content rectangle, padding and border.
BorderBoxOf(d) ==
    [ x |-> d.content.x - d.padding.left - d.border.left,
      y |-> d.content.y - d.padding.top - d.border.top,
      width |-> d.content.width + d.padding.left + d.padding.right
                + d.border.left + d.border.right,
      height |-> d.content.height + d.padding.top + d.padding.bottom
                 + d.border.top + d.border.bottom ]

Fill(c, x, y, w, h) == [color |-> c, rect |-> [x |-> x, y |-> y, width |-> w, height |-> h]]

HasColour(b, name) ==
    Specifies(b, name) /\ b.style.specified_values[name].t = "Color"

BackgroundFill(b) ==
    Fill(b.style.specified_values["background"].v,
         BorderBoxOf(b.dimensions).x, BorderBoxOf(b.dimensions).y,
         BorderBoxOf(b.dimensions).width, BorderBoxOf(b.dimensions).height)

\* The four border fills of a box: left, right, top, bottom.
BorderFills(b) ==
    LET bb == BorderBoxOf(b.dimensions)
        c == b.style.specified_values["border-color"].v
        border == b.dimensions.border
    IN  << Fill(c, bb.x, bb.y, border.left, bb.height),
           Fill(c, bb.x + bb.width - border.right, bb.y, border.right, bb.height),
           Fill(c, bb.x, bb.y, bb.width, border.top),
           Fill(c, bb.x, bb.y + bb.height - border.bottom, bb.width, border.bottom) >>

\* The commands of one box: its background, then its borders.
CommandsOf(b) ==
    (IF HasColour(b, "background") THEN <<BackgroundFill(b)>> ELSE <<>>)
    \o (IF HasColour(b, "border-color") THEN BorderFills(b) ELSE <<>>)

RECURSIVE CommandsOfAll(_, _)
CommandsOfAll(boxes, i) ==
    IF i > Len(boxes) THEN <<>>
    ELSE CommandsOf(boxes[i]) \o CommandsOfAll(boxes, i + 1)

\* C16: the display list is the commands of the boxes in pre-order of the
\* box tree, each box giving its background fill and then its left, right,
\* top and bottom border fills: a box before its descendants, a subtree
\* before the subtrees of its later siblings.
C16_DisplayListOrder ==
    Painted => display_list = CommandsOfAll(BoxPreOrder(layout_root), 1)

\* A painted parent with borders and two painted children, the first of
\* which has a child of its own.
C16_Witness ==
    /\ Painted
    /\ HasColour(layout_root, "border-color")
    /\ layout_root.dimensions.border.left > 0
    /\ Len(layout_root.children) = 2
    /\ Len(layout_root.children[1].children) = 1
    /\ Len(display_list) >= 8
    /\ display_list[1].color = layout_root.style.specified_values["background"].v
    /\ display_list[2].color = layout_root.style.specified_values["border-color"].v
    /\ display_list[Len(display_list)].color # display_list[1].color

CountColour(list, c) == Cardinality({k \in 1..Len(list) : list[k].color = c})

BlockBoxes == {b \in Boxes(layout_root) : b.box_type = "BlockNode"}

\* The number of commands the Block boxes among a sequence of boxes call for.
RECURSIVE BlockCommandCount(_, _)
BlockCommandCount(boxes, i) ==
    IF i > Len(boxes) THEN 0
    ELSE (IF boxes[i].box_type = "BlockNode" /\ HasColour(boxes[i], "background")
          THEN 1 ELSE 0)
         + (IF boxes[i].box_type = "BlockNode" /\ HasColour(boxes[i], "border-color")
            THEN 4 ELSE 0)
         + BlockCommandCount(boxes, i + 1)

\* C17: the display list holds one background fill for each Block box with
\* a background colour, four border fills for each Block box with a border
\* colour, and nothing else: Inline and AnonymousBlock boxes emit nothing.
C17_DisplayListContent ==
    Painted =>
        /\ \A b \in BlockBoxes :
              /\ HasColour(b, "background") =>
                    CountColour(display_list, b.style.specified_values["background"].v) = 1
              /\ HasColour(b, "border-color") =>
                    CountColour(display_list, b.style.specified_values["border-color"].v) = 4
        /\ Len(display_list) = BlockCommandCount(BoxPreOrder(layout_root), 1)

Inside(rect, bb) ==
    /\ rect.x >= bb.x /\ rect.x + rect.width <= bb.x + bb.width
    /\ rect.y >= bb.y /\ rect.y + rect.height <= bb.y + bb.height

\* The 100x50 content box with padding 10 and borders 5.
IsScenarioBox(d) ==
    /\ d.content.width = 100 /\ d.content.height = 50
    /\ d.padding = [left |-> 10, right |-> 10, top |-> 10, bottom |-> 10]
    /\ d.border = [left |-> 5, right |-> 5, top |-> 5, bottom |-> 5]

\* Four consecutive commands of the list from position k on.
Four(list, k) == <<list[k], list[k + 1], list[k + 2], list[k + 3]>>

\* C18: the background fill of a box covers its border box, margins
\* excluded; its four border fills lie inside the border box, flush with
\* its left, right, top and bottom edges, with the border-box height and
\* the left and right border widths, and the border-box width and the top
\* and bottom border heights; a 100x50 box with padding 10 and borders 5
\* gets the background (x - 15, y - 15, 130, 80) and fills of thickness 5.
C18_CommandGeometry ==
    Painted => \A b \in Boxes(layout_root) :
        /\ HasColour(b, "background") =>
              /\ \E k \in 1..Len(display_list) : display_list[k] = BackgroundFill(b)
              /\ IsScenarioBox(b.dimensions) =>
                    BackgroundFill(b).rect =
                        [ x |-> b.dimensions.content.x - 15, y |-> b.dimensions.content.y - 15,
                          width |-> 130, height |-> 80 ]
        /\ HasColour(b, "border-color") =>
              /\ \E k \in 1..(Len(display_list) - 3) : Four(display_list, k) = BorderFills(b)
              /\ \A k \in 1..4 : Inside(BorderFills(b)[k].rect, BorderBoxOf(b.dimensions))
              /\ IsScenarioBox(b.dimensions) =>
                    /\ BorderFills(b)[1].rect.width = 5 /\ BorderFills(b)[2].rect.width = 5
                    /\ BorderFills(b)[3].rect.height = 5 /\ BorderFills(b)[4].rect.height = 5
                    /\ BorderFills(b)[1].rect.height = 80 /\ BorderFills(b)[3].rect.width = 130

\* The 100x50 box with padding 10, borders 5 and margins 2, painted below a
\* sibling: its background starts 15 to the left of and above its content.
C18_Witness ==
    /\ Painted
    /\ \E b \in BlockBoxes :
          /\ IsScenarioBox(b.dimensions)
          /\ b.dimensions.margin.left = 2
          /\ b.dimensions.content.y > 17
          /\ \E k \in 1..(Len(display_list) - 4) :
                /\ display_list[k].rect =
                      [ x |-> b.dimensions.content.x - 15, y |-> b.dimensions.content.y - 15,
                        width |-> 130, height |-> 80 ]
                /\ display_list[k + 2].rect.x = b.dimensions.content.x + 110
                /\ display_list[k + 2].rect.width = 5

(***************************************************************************)
(* Properties of what layout attaches and reports.                         *)
(***************************************************************************)
\* The borders of every Block render box against the style and the
\* dimensions of the box it was laid out from.
RECURSIVE BordersAttached(_, _)
BordersAttached(render, b) ==
    render.kind = "Block" =>
        /\ render.dimensions.border.top = Px(Specified(b, "border-top-width", "border-width"))
        /\ render.dimensions.border.bottom =
              Px(Specified(b, "border-bottom-width", "border-width"))
        /\ render.dimensions.border.left = Px(Specified(b, "border-left-width", "border-width"))
        /\ render.dimensions.border.right =
              Px(Specified(b, "border-right-width", "border-width"))
        /\ render.dimensions.border.right = b.dimensions.border.right
        /\ \A k \in 1..Len(render.children) : BordersAttached(render.children[k], b.children[k])

\* C19: in every block that layout_block returns, each border width is the
\* per-side property border-<side>-width, else border-width, else 0, the
\* right one read from border-right-width; the border.right attached for
\* painting is the border-right used in width resolution.
C19_BorderWidthsAttached ==
    Built => BordersAttached(render_tree.root, layout_root)

BoxModelProperties ==
    {"width", "height", "margin", "margin-left", "margin-right", "margin-top",
     "margin-bottom", "border-width", "border-left-width", "border-right-width",
     "border-top-width", "border-bottom-width", "padding", "padding-left",
     "padding-right", "padding-top", "padding-bottom"}

\* A value that is no length: a keyword other than auto, a unit other than px.
IsValueError(value) ==
    \/ value.t = "Keyword" /\ value.s # "auto"
    \/ value.t = "Length" /\ value.u # "Px"
    \/ value.t = "Color"

HasValueError(style) ==
    \E name \in BoxModelProperties \cap DOMAIN style.specified_values :
        IsValueError(style.specified_values[name])

\* C20: layout never completes with geometry for a tree in which a Block
\* box has a width, height, margin, border width or padding that is
\* present and is no valid length; it ends with an error instead.
C20_ValueErrorsSurfaced ==
    Built => \A b \in Boxes(layout_root) :
        b.box_type = "BlockNode" => ~HasValueError(b.style)

ZeroDimensions ==
    [ content |-> [x |-> 0, y |-> 0, width |-> 0, height |-> 0],
      padding |-> [left |-> 0, right |-> 0, top |-> 0, bottom |-> 0],
      border |-> [left |-> 0, right |-> 0, top |-> 0, bottom |-> 0],
      margin |-> [left |-> 0, right |-> 0, top |-> 0, bottom |-> 0] ]

\* Every box of the tree of b has all-zero dimensions.
AllZero(b) == \A x \in Boxes(b) : x.dimensions = ZeroDimensions

\* Below Block boxes the render tree follows the box tree; an Inline or
\* AnonymousBlock box is a leaf of the render tree, its whole subtree has
\* all-zero dimensions and it adds nothing to the height of its parent.
RECURSIVE StopsAtNonBlock(_, _)
StopsAtNonBlock(b, render) ==
    IF b.box_type = "BlockNode"
    THEN /\ render.kind = "Block"
         /\ Len(render.children) = Len(b.children)
         /\ ~HasPixelHeight(b) =>
               b.dimensions.content.height = ChildrenHeight(b.children, 1)
         /\ \A k \in 1..Len(b.children) : StopsAtNonBlock(b.children[k], render.children[k])
    ELSE /\ AllZero(b)
         /\ MarginBoxHeight(b.dimensions) = 0
         /\ render = [kind |-> IF b.box_type = "InlineNode" THEN "Inline" ELSE "Anonymous"]

\* C23: layout never descends into an Inline or AnonymousBlock box: such a
\* box and every box below it, Block boxes included, keeps all-zero
\* dimensions, adds 0 to the height of its parent and is a leaf of the
\* render tree; under an Inline root nothing is laid out.
C23_LayoutStopsAtNonBlock ==
    Built => StopsAtNonBlock(layout_root, render_tree.root)

\* A Block box with a width, a height, padding and borders in its style,
\* nested in an inline element under a Block root: it was never laid out.
C23_Witness ==
    /\ Built
    /\ layout_root.box_type = "BlockNode"
    /\ \E k \in 1..Len(layout_root.children) :
          /\ layout_root.children[k].box_type = "AnonymousBlock"
          /\ render_tree.root.children[k] = [kind |-> "Anonymous"]
          /\ \E i \in 1..Len(layout_root.children[k].children) :
                LET inline == layout_root.children[k].children[i]
                IN  /\ inline.box_type = "InlineNode"
                    /\ \E j \in 1..Len(inline.children) :
                          /\ inline.children[j].box_type = "BlockNode"
                          /\ Specifies(inline.children[j], "width")
                          /\ Specifies(inline.children[j], "height")
                          /\ inline.children[j].dimensions = ZeroDimensions

\* The events of the log of the pass with this name and this path.
At(ev, p) == {k \in 1..Len(pass.log) : pass.log[k].ev = ev /\ pass.log[k].path = p}

\* Every event ev2 of p2 has an event ev1 of p1 before it.
Before(ev1, p1, ev2, p2) == \A k2 \in At(ev2, p2) : \E k1 \in At(ev1, p1) : k1 < k2

InPass == pc \in {"layout_pass", "laid_out", "painted"}
BoxPaths == DOMAIN pass.boxes
BlockPaths == {p \in DOMAIN pass.boxes : pass.boxes[p].box_type = "BlockNode"}

\* The boxes all of whose ancestors are Block boxes.
Reached(p) == \A j \in 0..(Len(p) - 1) : pass.boxes[SubSeq(p, 1, j)].box_type = "BlockNode"

PhasesInOrder(p) ==
    /\ Before("enter", p, "width", p)
    /\ Before("width", p, "position", p)
    /\ \A k \in 1..pass.boxes[p].arity : Before("position", p, "enter", Append(p, k))
    /\ \A k \in 1..(pass.boxes[p].arity - 1) :
          Before("return", Append(p, k), "enter", Append(p, k + 1))
    /\ \A k \in 1..pass.boxes[p].arity : Before("return", Append(p, k), "height", p)
    /\ Before("position", p, "height", p)
    /\ Before("height", p, "return", p)

NeverRevisited ==
    \A p \in BoxPaths : \A ev \in {"enter", "width", "position", "height", "return"} :
        Cardinality(At(ev, p)) <= 1

\* The dimensions a box had when its call of layout returned are the ones it
\* has ever after, in the pass and in the tree the pass leaves.
FrozenOnReturn ==
    \A k \in 1..Len(pass.log) :
        pass.log[k].ev = "return" =>
            /\ pass.boxes[pass.log[k].path].dimensions = pass.log[k].dimensions
            /\ Built => BoxAt(layout_root, pass.log[k].path).dimensions = pass.log[k].dimensions

AllPhasesDone(p) ==
    \A ev \in {"enter", "width", "position", "height", "return"} : Cardinality(At(ev, p)) = 1

\* The pass as the log shows it; entered is the set of boxes that layout is
\* entered for by the end of the pass.
LayoutPass(entered) ==
    InPass =>
        /\ \A p \in BlockPaths : PhasesInOrder(p)
        /\ NeverRevisited
        /\ FrozenOnReturn
        /\ Built =>
              /\ \A p \in BoxPaths : Cardinality(At("enter", p)) = (IF p \in entered THEN 1 ELSE 0)
              /\ \A p \in BlockPaths \cap entered : AllPhasesDone(p)

\* C22 as stated: for every Block box the width is resolved before the
\* position, the position before any child is laid out, the children are
\* laid out one after another in document order and the height is resolved
\* after the last child has returned; layout is entered exactly once for
\* every box of the tree, and no box's dimensions change after its call of
\* layout has returned.
C22_LayoutPhaseOrdering == LayoutPass(BoxPaths)

\* C22 amended: the same ordering for every Block box that is laid out;
\* layout is entered exactly once for every box all of whose ancestors are
\* Block boxes and never for a box below an Inline or AnonymousBlock box,
\* and no box's dimensions change after its call of layout has returned.
C22_PhaseOrderingOfReachedBoxes == LayoutPass({p \in BoxPaths : Reached(p)})

\* A finished pass over a Block root with two boxes or more below it, one of
\* them a Block box, and a box that layout never entered.
C22_Witness ==
    /\ pc = "laid_out"
    /\ pass.boxes[<<>>].box_type = "BlockNode" /\ pass.boxes[<<>>].arity >= 2
    /\ \E k \in 1..pass.boxes[<<>>].arity :
          /\ pass.boxes[<<k>>].box_type = "BlockNode"
          /\ At("height", <<k>>) # {}
    /\ \E p \in BoxPaths : ~Reached(p) /\ At("enter", p) = {}
    /\ \E h \in At("height", <<>>) : \E r \in At("return", <<pass.boxes[<<>>].arity>>) : r < h
====
